---- MODULE Spec2Model ----
(***************************************************************************)
(* Task Tracker API (backend/app/app.py): the four /tasks handlers over    *)
(* the Task table, with the helpers user_exists and validate_priority.     *)
(*                                                                         *)
(* Representation.                                                         *)
(*   - A Python str is a sequence of one-character strings, so that        *)
(*     str.strip, str.lower and the containment match are computed         *)
(*     character by character.                                             *)
(*   - An Optional[T] is a sequence of length <= 1: None is <<>> and a     *)
(*     value v is <<v>>.                                                   *)
(*   - A date is a day number; a datetime is a tick of the clock.          *)
(*   - The Task table is a function from the ids in use to the rows.       *)
(*   - `last` is the request the service answered last and its response.   *)
(* Environment.  Requests are served one after the other.  The clock read  *)
(* by datetime.now advances by at least one tick from one request to the   *)
(* next; the two reads made while one Task object is constructed may fall  *)
(* in the same tick.  date.today() is whatever day the call happens on.    *)
(* The storage is SQLite (DATABASE_URL): a new row gets the largest id in  *)
(* use plus one.                                                           *)
(*                                                                         *)
(* Specifications.  The four share Init and the handlers and differ in the *)
(* requests they send and in their bounds: Spec (every kind of valid and   *)
(* invalid body), SpecUpdate (longer sequences of one-field updates),      *)
(* SpecOrder (tasks told apart by completed and created_at) and SpecFilter *)
(* (tasks told apart by the filtered columns, with every query string of   *)
(* AllQueries evaluated on every table reached).                           *)
(***************************************************************************)
EXTENDS Integers, Sequences, FiniteSets, TLC

VARIABLES db, clock, last

vars == <<db, clock, last>>

\* ------------------------------------------------------------------ bounds
\* The storage holds at most MaxId rows and the clock stops at MaxClock;
\* date.today() is one of the days 1..MaxDay.
MaxId == 2
MaxClock == 2
MaxDay == 2
\* The same, for the specification of the list order.
OrderMaxId == 3
OrderMaxClock == 5
\* The same, for the specification of the update sequences.
UpdateMaxId == 2
UpdateMaxClock == 4
\* The same, for the specification of the list filters.
FilterMaxId == 2
FilterMaxClock == 2

Days == 1..MaxDay

\* ------------------------------------------------------- Optional[T], str
None == <<>>

Some(v) == <<v>>

IsWhitespace(c) == c \in {" ", "\t", "\n"}

RECURSIVE lstrip(_)
lstrip(s) ==
    IF s = <<>> THEN <<>>
    ELSE IF IsWhitespace(Head(s)) THEN lstrip(Tail(s))
    ELSE s

RECURSIVE rstrip(_)
rstrip(s) ==
    IF s = <<>> THEN <<>>
    ELSE IF IsWhitespace(s[Len(s)]) THEN rstrip(SubSeq(s, 1, Len(s) - 1))
    ELSE s

strip(s) == rstrip(lstrip(s))

UpperCase == <<"A","B","C","D","E","F","G","H","I","J","K","L","M",
               "N","O","P","Q","R","S","T","U","V","W","X","Y","Z">>

LowerCase == <<"a","b","c","d","e","f","g","h","i","j","k","l","m",
               "n","o","p","q","r","s","t","u","v","w","x","y","z">>

LowerChar(c) ==
    IF \E i \in 1..Len(UpperCase) : UpperCase[i] = c
    THEN LowerCase[CHOOSE i \in 1..Len(UpperCase) : UpperCase[i] = c]
    ELSE c

lower(s) == [i \in 1..Len(s) |-> LowerChar(s[i])]

\* Task.title.contains(search): the text holds the pattern as a substring.
contains(text, pat) ==
    \E i \in 0..(Len(text) - Len(pat)) : SubSeq(text, i + 1, i + Len(pat)) = pat

\* ------------------------------------------------------ module constants
TEAM_MEMBERS == <<[id |-> 1, name |-> "Harry"], [id |-> 2, name |-> "John"],
                  [id |-> 3, name |-> "Peter"], [id |-> 4, name |-> "Tom"]>>

P_low == <<"l","o","w">>
P_medium == <<"m","e","d","i","u","m">>
P_high == <<"h","i","g","h">>

ALLOWED_PRIORITIES == {P_low, P_medium, P_high}

\* ---------------------------------------------------------------- helpers
\* Variant: every id is taken for a team member.
user_exists_any(user_id) == TRUE

user_exists(user_id) ==
    IF user_id = None THEN FALSE
    ELSE \E i \in 1..Len(TEAM_MEMBERS) : TEAM_MEMBERS[i].id = user_id[1]

\* validate_priority returns a value or raises HTTPException(400).
\* Variant: the value is lower-cased and not checked.
validate_priority_unchecked(value) ==
    IF value = None THEN [ok |-> TRUE, val |-> P_medium]
    ELSE [ok |-> TRUE, val |-> lower(value[1])]

validate_priority(value) ==
    IF value = None THEN [ok |-> TRUE, val |-> P_medium]
    ELSE LET val == lower(value[1]) IN
         IF val \notin ALLOWED_PRIORITIES THEN [ok |-> FALSE, val |-> val]
         ELSE [ok |-> TRUE, val |-> val]

\* ------------------------------------------------------------ the storage
\* session.get(Task, task_id): the row, or None.
session_get(table, task_id) ==
    IF task_id \in DOMAIN table THEN Some(table[task_id]) ELSE None

\* The id the storage gives a new row (session.add, commit, refresh): an
\* INTEGER PRIMARY KEY of SQLite, one more than the largest id in use.
new_id(table) ==
    IF DOMAIN table = {} THEN 1
    ELSE (CHOOSE i \in DOMAIN table : \A j \in DOMAIN table : j <= i) + 1

session_add(table, task_id, task) ==
    [i \in DOMAIN table \cup {task_id} |-> IF i = task_id THEN task ELSE table[i]]

\* Variant: the delete takes every row.
session_delete_all(table, task_id) == [i \in {} |-> table[i]]

session_delete(table, task_id) ==
    [i \in DOMAIN table \ {task_id} |-> table[i]]

Init ==
    /\ db = [i \in {} |-> 0]
    /\ clock = 0
    /\ last = [op |-> "none"]

\* ----------------------------------------------------- POST /tasks (201)
\* Task(...): completed defaults to False; created_at and updated_at come
\* from two reads of the clock, at ticks now and now + d.
new_task(title, payload, priority, now, d) ==
    [title |-> title,
     description |-> strip(payload.description),
     completed |-> FALSE,
     assignee_id |-> payload.assignee_id,
     priority |-> priority,
     due_date |-> payload.due_date,
     created_at |-> now,
     updated_at |-> now + d]

create_task(payload, d) ==
    LET title == strip(payload.title) IN
       IF title = <<>>
       THEN /\ last' = [op |-> "create", payload |-> payload, status |-> 400,
                        detail |-> "title is required"]
            /\ UNCHANGED <<db, clock>>
       ELSE IF ~user_exists(payload.assignee_id)
       THEN /\ last' = [op |-> "create", payload |-> payload, status |-> 400,
                        detail |-> "assignee_id is invalid"]
            /\ UNCHANGED <<db, clock>>
       ELSE LET pr == validate_priority(Some(payload.priority)) IN
            IF ~pr.ok
            THEN /\ last' = [op |-> "create", payload |-> payload, status |-> 400,
                             detail |-> "priority must be one of low|medium|high"]
                 /\ UNCHANGED <<db, clock>>
            ELSE LET id == new_id(db) IN
                 /\ db' = session_add(db, id,
                                      new_task(title, payload, pr.val, clock + 1, d))
                 /\ clock' = clock + 1 + d
                 /\ last' = [op |-> "create", payload |-> payload, status |-> 201,
                             body |-> [id |-> id]]

\* ------------------------------------------------ PATCH /tasks/{task_id}
\* The handler works on the Task object the session loaded: st.task is that
\* object, st.status turns 400 where the handler raises, and the statements
\* after a raise do not run.
set_title(st, payload) ==
    IF st.status # 200 \/ payload.title = None THEN st
    ELSE LET title == strip(payload.title[1]) IN
         IF title = <<>>
         THEN [st EXCEPT !.status = 400, !.detail = "title cannot be empty"]
         ELSE [st EXCEPT !.task.title = title]

set_description(st, payload) ==
    IF st.status # 200 \/ payload.description = None THEN st
    ELSE [st EXCEPT !.task.description = strip(payload.description[1])]

\* Variant: a null assignee_id clears the field.
set_assignee_id_clearing(st, payload) ==
    IF st.status # 200 THEN st
    ELSE IF payload.assignee_id = None THEN [st EXCEPT !.task.assignee_id = None]
    ELSE IF ~user_exists(payload.assignee_id)
    THEN [st EXCEPT !.status = 400, !.detail = "assignee_id is invalid"]
    ELSE [st EXCEPT !.task.assignee_id = payload.assignee_id]

set_assignee_id(st, payload) ==
    IF st.status # 200 \/ payload.assignee_id = None THEN st
    ELSE IF ~user_exists(payload.assignee_id)
    THEN [st EXCEPT !.status = 400, !.detail = "assignee_id is invalid"]
    ELSE [st EXCEPT !.task.assignee_id = payload.assignee_id]

set_completed(st, payload) ==
    IF st.status # 200 \/ payload.completed = None THEN st
    ELSE [st EXCEPT !.task.completed = payload.completed[1]]

set_priority(st, payload) ==
    IF st.status # 200 \/ payload.priority = None THEN st
    ELSE LET pr == validate_priority(payload.priority) IN
         IF ~pr.ok
         THEN [st EXCEPT !.status = 400,
                         !.detail = "priority must be one of low|medium|high"]
         ELSE [st EXCEPT !.task.priority = pr.val]

set_due_date(st, payload) ==
    IF st.status # 200 \/ payload.due_date = None THEN st
    ELSE [st EXCEPT !.task.due_date = payload.due_date]

update_fields(task, payload) ==
    set_due_date(
      set_priority(
        set_completed(
          set_assignee_id(
            set_description(
              set_title([task |-> task, status |-> 200, detail |-> ""], payload),
              payload),
            payload),
          payload),
        payload),
      payload)

\* Leaving `with Session(...)` on a raise: nothing was flushed or committed,
\* the changes made to the loaded object are dropped with the session.
\* Variant: the loaded object is written on the way out.
session_close_flushing(table, task_id, task) == session_add(table, task_id, task)

session_close(table, task_id, task) == table

\* task.updated_at = datetime.now(tz=timezone.utc), on every call that gets
\* there; loaded is the row as the session read it.
\* Variant: updated_at moves only when a field changed.
refresh_updated_at_if_dirty(task, loaded, now) ==
    IF task = loaded THEN task ELSE [task EXCEPT !.updated_at = now]

refresh_updated_at(task, loaded, now) == [task EXCEPT !.updated_at = now]

update_task(task_id, payload) ==
    LET got == session_get(db, task_id) IN
       IF got = None
       THEN /\ last' = [op |-> "update", id |-> task_id, payload |-> payload,
                        status |-> 404, detail |-> "Task not found"]
            /\ UNCHANGED <<db, clock>>
       ELSE LET st == update_fields(got[1], payload) IN
            IF st.status # 200
            THEN /\ db' = session_close(db, task_id, st.task)
                 /\ last' = [op |-> "update", id |-> task_id, payload |-> payload,
                             status |-> st.status, detail |-> st.detail]
                 /\ UNCHANGED clock
            ELSE /\ db' = session_add(db, task_id,
                                      refresh_updated_at(st.task, got[1], clock + 1))
                 /\ clock' = clock + 1
                 /\ last' = [op |-> "update", id |-> task_id, payload |-> payload,
                             status |-> 200, body |-> [ok |-> TRUE]]

\* ----------------------------------------------- DELETE /tasks/{task_id}
delete_task(task_id) ==
    IF session_get(db, task_id) = None
    THEN /\ last' = [op |-> "delete", id |-> task_id, status |-> 404,
                     detail |-> "Task not found"]
         /\ UNCHANGED <<db, clock>>
    ELSE /\ db' = session_delete(db, task_id)
         /\ last' = [op |-> "delete", id |-> task_id, status |-> 200,
                     body |-> [ok |-> TRUE]]
         /\ UNCHANGED clock

\* ------------------------------------------------------------ GET /tasks
\* sql_statement is the set of rows its WHERE clauses keep (stmt.rows) and
\* stmt.status, which turns 400 where validate_priority raises.  A
\* comparison of a NULL column is not true, so the row is not kept.
where_search(stmt, table, q) ==
    IF stmt.status # 200 \/ q.search = None \/ q.search = Some(<<>>) THEN stmt
    ELSE [stmt EXCEPT !.rows = {i \in stmt.rows :
                                  \/ contains(table[i].title, q.search[1])
                                  \/ contains(table[i].description, q.search[1])}]

\* Variant: any status but "complete" filters the open tasks.
where_status_else_incomplete(stmt, table, q) ==
    IF stmt.status # 200 \/ q.status = None THEN stmt
    ELSE IF q.status = Some("complete")
    THEN [stmt EXCEPT !.rows = {i \in stmt.rows : table[i].completed = TRUE}]
    ELSE [stmt EXCEPT !.rows = {i \in stmt.rows : table[i].completed = FALSE}]

where_status(stmt, table, q) ==
    IF stmt.status # 200 THEN stmt
    ELSE IF q.status = Some("complete")
    THEN [stmt EXCEPT !.rows = {i \in stmt.rows : table[i].completed = TRUE}]
    ELSE IF q.status = Some("incomplete")
    THEN [stmt EXCEPT !.rows = {i \in stmt.rows : table[i].completed = FALSE}]
    ELSE stmt

where_assignee_id(stmt, table, q) ==
    IF stmt.status # 200 \/ q.assignee_id = None THEN stmt
    ELSE [stmt EXCEPT !.rows = {i \in stmt.rows :
                                  table[i].assignee_id = q.assignee_id}]

where_priority(stmt, table, q) ==
    IF stmt.status # 200 \/ q.priority = None \/ q.priority = Some(<<>>) THEN stmt
    ELSE LET pr == validate_priority(q.priority) IN
         IF ~pr.ok
         THEN [stmt EXCEPT !.status = 400,
                           !.detail = "priority must be one of low|medium|high"]
         ELSE [stmt EXCEPT !.rows = {i \in stmt.rows : table[i].priority = pr.val}]

\* Variant: overdue and upcoming take today in.
where_due_inclusive(stmt, table, q, today) ==
    IF stmt.status # 200 THEN stmt
    ELSE IF q.due = Some("overdue")
    THEN [stmt EXCEPT !.rows = {i \in stmt.rows :
                                  /\ table[i].due_date # None
                                  /\ table[i].due_date[1] <= today}]
    ELSE IF q.due = Some("today")
    THEN [stmt EXCEPT !.rows = {i \in stmt.rows :
                                  /\ table[i].due_date # None
                                  /\ table[i].due_date[1] = today}]
    ELSE IF q.due = Some("upcoming")
    THEN [stmt EXCEPT !.rows = {i \in stmt.rows :
                                  /\ table[i].due_date # None
                                  /\ table[i].due_date[1] >= today}]
    ELSE stmt

where_due(stmt, table, q, today) ==
    IF stmt.status # 200 THEN stmt
    ELSE IF q.due = Some("overdue")
    THEN [stmt EXCEPT !.rows = {i \in stmt.rows :
                                  /\ table[i].due_date # None
                                  /\ table[i].due_date[1] < today}]
    ELSE IF q.due = Some("today")
    THEN [stmt EXCEPT !.rows = {i \in stmt.rows :
                                  /\ table[i].due_date # None
                                  /\ table[i].due_date[1] = today}]
    ELSE IF q.due = Some("upcoming")
    THEN [stmt EXCEPT !.rows = {i \in stmt.rows :
                                  /\ table[i].due_date # None
                                  /\ table[i].due_date[1] > today}]
    ELSE stmt

\* ORDER BY completed ASC, created_at DESC: row a sorts before row b.
\* Variant: created_at ascending.
sorts_before_oldest_first(a, b) ==
    \/ (~a.completed /\ b.completed)
    \/ (a.completed = b.completed /\ a.created_at < b.created_at)

sorts_before(a, b) ==
    \/ (~a.completed /\ b.completed)
    \/ (a.completed = b.completed /\ a.created_at > b.created_at)

\* The rows in that order; rows the ordering does not tell apart come in
\* the order of their ids.
RECURSIVE order_by(_, _)
order_by(table, rows) ==
    IF rows = {} THEN <<>>
    ELSE LET first == CHOOSE i \in rows : \A j \in rows \ {i} :
                        \/ sorts_before(table[i], table[j])
                        \/ (~sorts_before(table[j], table[i]) /\ i < j)
         IN <<first>> \o order_by(table, rows \ {first})

\* user_map.get(t.assignee_id, "Unassigned") if t.assignee_id else "Unassigned"
assignee_name(assignee_id) ==
    IF assignee_id = None \/ assignee_id = Some(0) THEN "Unassigned"
    ELSE IF \E i \in 1..Len(TEAM_MEMBERS) : TEAM_MEMBERS[i].id = assignee_id[1]
    THEN TEAM_MEMBERS[CHOOSE i \in 1..Len(TEAM_MEMBERS) :
                        TEAM_MEMBERS[i].id = assignee_id[1]].name
    ELSE "Unassigned"

task_view(id, t) ==
    [id |-> id, title |-> t.title, description |-> t.description,
     completed |-> t.completed, assignee_id |-> t.assignee_id,
     assignee_name |-> assignee_name(t.assignee_id), priority |-> t.priority,
     due_date |-> t.due_date, created_at |-> t.created_at,
     updated_at |-> t.updated_at]

\* The handler as a function of the table, the query and date.today().
list_response(table, q, today) ==
    LET stmt == where_due(
                  where_priority(
                    where_assignee_id(
                      where_status(
                        where_search([rows |-> DOMAIN table, status |-> 200,
                                      detail |-> ""], table, q),
                        table, q),
                      table, q),
                    table, q),
                  table, q, today)
    IN IF stmt.status # 200
       THEN [status |-> stmt.status, detail |-> stmt.detail]
       ELSE LET rows == order_by(table, stmt.rows) IN
            [status |-> 200,
             body |-> [k \in 1..Len(rows) |-> task_view(rows[k], table[rows[k]])]]

list_tasks(q, today) ==
    /\ last' = LET resp == list_response(db, q, today) IN
               IF resp.status = 200
               THEN [op |-> "list", q |-> q, today |-> today, status |-> 200,
                     body |-> resp.body]
               ELSE [op |-> "list", q |-> q, today |-> today,
                     status |-> resp.status, detail |-> resp.detail]
    /\ UNCHANGED <<db, clock>>

\* ------------------------------------------------------------ the requests
\* TaskCreate bodies: title and priority are str, the others Optional or
\* defaulted ("" for description, "medium" for priority).
P_HIGH == <<"H","I","G","H">>
P_Low == <<"L","o","w">>
P_urgent == <<"u","r","g","e","n","t">>

CreatePayloads ==
    [title : {<<" ">>, <<" ", "a", " ">>},
     description : {<<>>},
     assignee_id : {None, Some(1), Some(5)},
     priority : {P_medium, P_HIGH, P_urgent},
     due_date : {None, Some(1)}]

\* TaskUpdate bodies: every field Optional, None when absent or null.
NoUpdate ==
    [title |-> None, description |-> None, assignee_id |-> None,
     completed |-> None, priority |-> None, due_date |-> None]

AllUpdatePayloads ==
    [title : {None, Some(<<" ">>), Some(<<"b", " ">>)},
     description : {None, Some(<<" ", "d">>)},
     assignee_id : {None, Some(4), Some(5)},
     completed : {None, Some(TRUE), Some(FALSE)},
     priority : {None, Some(P_Low), Some(P_urgent)},
     due_date : {None, Some(2)}]

FieldsPresent(p) == Cardinality({f \in DOMAIN p : p[f] # None})

\* The bodies with at most two fields present.
UpdatePayloads == {p \in AllUpdatePayloads : FieldsPresent(p) <= 2}

NoQuery ==
    [search |-> None, status |-> None, assignee_id |-> None, priority |-> None,
     due |-> None]

ListQueries ==
    {NoQuery,
     [NoQuery EXCEPT !.status = Some("incomplete"), !.assignee_id = Some(4)],
     [NoQuery EXCEPT !.priority = Some(P_urgent)]}

\* ------------------------------------------------------------- the actions
\* One request each; maxId and maxClock bound the storage and the clock, and
\* gaps are the ticks that may pass between the two clock reads of a create.
CreateTask(payloads, gaps, maxId, maxClock) ==
    \E payload \in payloads, d \in gaps :
        /\ new_id(db) <= maxId
        /\ clock + 1 + d <= maxClock
        /\ create_task(payload, d)

\* A request may name an id the storage holds, or one it does not (maxId + 1).
UpdateTask(payloads, maxId, maxClock) ==
    \E task_id \in 1..(maxId + 1), payload \in payloads :
        /\ clock + 1 <= maxClock
        /\ update_task(task_id, payload)

DeleteTask(maxId) == \E task_id \in 1..(maxId + 1) : delete_task(task_id)

ListTasks(queries) == \E q \in queries, today \in Days : list_tasks(q, today)

Next ==
    \/ CreateTask(CreatePayloads, {0, 1}, MaxId, MaxClock)
    \/ UpdateTask(UpdatePayloads, MaxId, MaxClock)
    \/ DeleteTask(MaxId)
    \/ ListTasks(ListQueries)

Spec == Init /\ [][Next]_vars

\* Sequences of updates: two kinds of task, and the bodies with one field
\* present at most.
SeqCreatePayloads ==
    {[title |-> <<"a">>, description |-> <<>>, assignee_id |-> Some(1),
      priority |-> P_medium, due_date |-> None],
     [title |-> <<"a">>, description |-> <<>>, assignee_id |-> Some(1),
      priority |-> P_HIGH, due_date |-> Some(1)]}

SeqUpdatePayloads == {p \in AllUpdatePayloads : FieldsPresent(p) <= 1}

NextUpdate ==
    \/ CreateTask(SeqCreatePayloads, {0}, UpdateMaxId, UpdateMaxClock)
    \/ UpdateTask(SeqUpdatePayloads, UpdateMaxId, UpdateMaxClock)
    \/ DeleteTask(UpdateMaxId)
    \/ ListTasks({NoQuery})

SpecUpdate == Init /\ [][NextUpdate]_vars

\* The list order: tasks that differ in completed and in created_at only.
OrderCreatePayloads ==
    {[title |-> <<"a">>, description |-> <<>>, assignee_id |-> Some(1),
      priority |-> P_medium, due_date |-> None]}

OrderUpdatePayloads ==
    {[NoUpdate EXCEPT !.completed = Some(TRUE)],
     [NoUpdate EXCEPT !.completed = Some(FALSE)]}

OrderQueries ==
    {NoQuery, [NoQuery EXCEPT !.status = Some("complete")]}

NextOrder ==
    \/ CreateTask(OrderCreatePayloads, {0, 1}, OrderMaxId, OrderMaxClock)
    \/ UpdateTask(OrderUpdatePayloads, OrderMaxId, OrderMaxClock)
    \/ DeleteTask(OrderMaxId)
    \/ ListTasks(OrderQueries)

SpecOrder == Init /\ [][NextOrder]_vars

\* The list filters: tasks that differ in the columns the filters read.
FilterCreatePayloads ==
    {[title |-> <<"a", "b">>, description |-> <<>>, assignee_id |-> Some(1),
      priority |-> P_medium, due_date |-> None],
     [title |-> <<"b">>, description |-> <<"c", "a">>, assignee_id |-> Some(4),
      priority |-> P_HIGH, due_date |-> Some(1)],
     [title |-> <<"b">>, description |-> <<>>, assignee_id |-> Some(4),
      priority |-> P_medium, due_date |-> Some(2)],
     [title |-> <<"c">>, description |-> <<>>, assignee_id |-> Some(1),
      priority |-> P_HIGH, due_date |-> Some(2)]}

FilterUpdatePayloads == {[NoUpdate EXCEPT !.completed = Some(TRUE)]}

\* The query strings: status, assignee_id, priority and due each absent, a
\* documented value, or another; and those among them with one parameter
\* at most, with a search added.
UnsearchedQueries ==
    [search : {None},
     status : {None, Some("complete"), Some("incomplete"), Some("all")},
     assignee_id : {None, Some(4)},
     priority : {None, Some(<<>>), Some(P_HIGH), Some(P_urgent)},
     due : {None, Some("overdue"), Some("today"), Some("upcoming"), Some("soon")}]

ParametersPresent(q) == Cardinality({f \in DOMAIN q : q[f] # None})

AllQueries ==
    UnsearchedQueries
    \cup {[q EXCEPT !.search = s] : s \in {Some(<<>>), Some(<<"a">>)},
                                   q \in {x \in UnsearchedQueries :
                                            ParametersPresent(x) <= 1}}

FilterQueries ==
    {[NoQuery EXCEPT !.status = Some("incomplete"), !.assignee_id = Some(4)],
     [NoQuery EXCEPT !.status = Some("all"), !.due = Some("soon")],
     [NoQuery EXCEPT !.priority = Some(P_urgent), !.status = Some("complete")]}

NextFilter ==
    \/ CreateTask(FilterCreatePayloads, {0}, FilterMaxId, FilterMaxClock)
    \/ UpdateTask(FilterUpdatePayloads, FilterMaxId, FilterMaxClock)
    \/ DeleteTask(FilterMaxId)
    \/ ListTasks(FilterQueries)

SpecFilter == Init /\ [][NextFilter]_vars

\* ================================================================ claims
Succeeded(r) == r.status \in {200, 201}

\* C1: a create request with a title that is non-empty after trimming, a
\* valid priority and no assignee_id succeeds, returns the generated id, and
\* the task with that id has the trimmed title, no assignee and
\* completed = false.
C1_CreateWithoutAssignee ==
    (/\ last.op = "create"
     /\ strip(last.payload.title) # <<>>
     /\ lower(last.payload.priority) \in ALLOWED_PRIORITIES
     /\ last.payload.assignee_id = None)
    => /\ last.status = 201
       /\ last.body.id \in DOMAIN db
       /\ db[last.body.id].title = strip(last.payload.title)
       /\ db[last.body.id].assignee_id = None
       /\ db[last.body.id].completed = FALSE

\* C2: an update of an existing task that fails with InvalidInput leaves the
\* table as it was, every field of the task included, also when fields
\* checked before the failing one were valid and assigned in memory.
C2_UpdateAllOrNothing ==
    [][(last'.op = "update" /\ last'.status = 400)
       => (last'.id \in DOMAIN db /\ db' = db /\ clock' = clock)]_vars

\* The update failed on its assignee_id or priority after its valid title,
\* another one than the stored title, was assigned in memory.
C2_Witness ==
    /\ last.op = "update"
    /\ last.status = 400
    /\ last.detail \in {"assignee_id is invalid",
                        "priority must be one of low|medium|high"}
    /\ last.payload.title # None
    /\ strip(last.payload.title[1]) # <<>>
    /\ db[last.id].title # strip(last.payload.title[1])

OnlyCompleted(payload) ==
    /\ payload.completed # None
    /\ payload = [NoUpdate EXCEPT !.completed = payload.completed]

\* C5: a successful update that carries only `completed` sets completed to
\* that value, leaves the task's other fields and every other task as they
\* were, and moves updated_at forward, also when completed keeps its value.
C5_CompletedOnly ==
    [][(last'.op = "update" /\ Succeeded(last') /\ OnlyCompleted(last'.payload))
       => LET id == last'.id IN
          /\ id \in DOMAIN db
          /\ DOMAIN db' = DOMAIN db
          /\ db'[id].completed = last'.payload.completed[1]
          /\ db'[id] = [db[id] EXCEPT !.completed = db'[id].completed,
                                      !.updated_at = db'[id].updated_at]
          /\ db'[id].updated_at > db[id].updated_at
          /\ \A j \in DOMAIN db \ {id} : db'[j] = db[j]]_vars

\* completed=false was sent to a task that was never completed.
C5_Witness ==
    /\ last.op = "update"
    /\ Succeeded(last)
    /\ last.payload = [NoUpdate EXCEPT !.completed = Some(FALSE)]
    /\ db[last.id].completed = FALSE
    /\ db[last.id].updated_at = db[last.id].created_at + 1
    /\ db[last.id].updated_at = clock

C6_State ==
    (last.op = "delete" /\ last.status = 200)
    => /\ last.id \notin DOMAIN db
       /\ \A q \in ListQueries, today \in Days :
             LET resp == list_response(db, q, today) IN
             resp.status = 200
             => \A k \in 1..Len(resp.body) : resp.body[k].id # last.id

C6_Step ==
    /\ (last'.op = "delete" /\ last'.id \notin DOMAIN db)
       => (last'.status = 404 /\ db' = db)
    /\ (last'.op = "delete" /\ last'.id \in DOMAIN db)
       => /\ last'.status = 200
          /\ db' = [i \in DOMAIN db \ {last'.id} |-> db[i]]
    /\ (last.op = "delete" /\ last.status = 200
        /\ last'.op \in {"delete", "update"} /\ last'.id = last.id)
       => (last'.status = 404 /\ db' = db)
    /\ (last.op = "delete" /\ last.status = 200 /\ last'.op = "list"
        /\ last'.status = 200)
       => \A k \in 1..Len(last'.body) : last'.body[k].id # last.id

\* C6: delete_task on an id with no task fails with NotFound and changes
\* nothing; on an existing id it removes that task and no other, and the
\* delete or update of the same id that follows fails with NotFound, and a
\* list that follows does not hold the task.
C6_Delete == []C6_State /\ [][C6_Step]_vars

\* A delete failed on an id the storage had given out (a later id is in
\* use), so on a task deleted before, and the other task is still there.
C6_Witness ==
    /\ last.op = "delete"
    /\ last.status = 404
    /\ \E j \in DOMAIN db : last.id < j

CarriesUnknownAssignee(r) ==
    /\ r.op \in {"create", "update"}
    /\ r.payload.assignee_id # None
    /\ r.payload.assignee_id[1] \notin {1, 2, 3, 4}

AssigneesResolve ==
    \A i \in DOMAIN db :
        db[i].assignee_id # None => db[i].assignee_id[1] \in {1, 2, 3, 4}

\* C7 as stated, in what a state shows of it: every stored non-null
\* assignee_id is in {1,2,3,4}, and a create or update carrying an
\* assignee_id outside that set fails with InvalidInput.
C7_AlwaysInvalidInput ==
    /\ AssigneesResolve
    /\ CarriesUnknownAssignee(last) => last.status = 400

C7_State ==
    /\ AssigneesResolve
    /\ CarriesUnknownAssignee(last)
       => \/ last.status = 400
          \/ (last.op = "update" /\ last.status = 404 /\ last.id \notin DOMAIN db)

C7_Step ==
    CarriesUnknownAssignee(last')
    => /\ db' = db
       /\ (last'.op = "create" \/ last'.id \in DOMAIN db) => last'.status = 400

\* C7 amended: every stored non-null assignee_id is in {1,2,3,4}; a create
\* or update carrying an assignee_id outside that set stores nothing and
\* fails, with InvalidInput, except that an update of an id with no task
\* fails with NotFound.
C7_Assignee == []C7_State /\ [][C7_Step]_vars

\* An update of an existing task was refused for its assignee_id.
C7_Witness ==
    /\ CarriesUnknownAssignee(last)
    /\ last.op = "update"
    /\ last.id \in DOMAIN db
    /\ last.status = 400
    /\ last.detail = "assignee_id is invalid"

\* The priority a request carries: a str in a create, Optional in an update.
PriorityOf(r) == IF r.op = "create" THEN Some(r.payload.priority) ELSE r.payload.priority

CarriesUnknownPriority(r) ==
    /\ r.op \in {"create", "update"}
    /\ PriorityOf(r) # None
    /\ lower(PriorityOf(r)[1]) \notin ALLOWED_PRIORITIES

C8_State ==
    /\ \A i \in DOMAIN db : db[i].priority \in {P_low, P_medium, P_high}
    /\ (last.op = "create" /\ Succeeded(last))
       => db[last.body.id].priority = lower(last.payload.priority)
    /\ (last.op = "update" /\ Succeeded(last) /\ last.payload.priority # None)
       => db[last.id].priority = lower(last.payload.priority[1])
    /\ validate_priority(None) = [ok |-> TRUE, val |-> P_medium]
    /\ validate_priority(Some(P_HIGH)) = [ok |-> TRUE, val |-> P_high]
    /\ ~validate_priority(Some(P_urgent)).ok

C8_Step ==
    CarriesUnknownPriority(last')
    => /\ db' = db
       /\ ~Succeeded(last')
       /\ (last'.op = "create" \/ last'.id \in DOMAIN db) => last'.status = 400

\* C8: every stored task has its priority in {low, medium, high}, in lower
\* case: a create or update stores the lower-cased value it was given,
\* validate_priority maps an absent value to "medium", and a request with any
\* other value fails (InvalidInput, from validate_priority) and stores
\* nothing.
C8_Priority == []C8_State /\ [][C8_Step]_vars

\* "HIGH" was sent and "high" is stored.
C8_Witness ==
    /\ last.op = "create"
    /\ Succeeded(last)
    /\ last.payload.priority = P_HIGH
    /\ db[last.body.id].priority = P_high

\* C10: an update cannot clear a field: a stored task's non-null
\* assignee_id, and its non-null due_date, stay non-null for as long as the
\* task is stored; an update whose assignee_id or due_date is null leaves the
\* stored value as it was, is not refused for it, and succeeds when all its
\* fields are null.
C10_NeverCleared ==
    [][/\ \A i \in DOMAIN db \cap DOMAIN db' :
            /\ db[i].assignee_id # None => db'[i].assignee_id # None
            /\ db[i].due_date # None => db'[i].due_date # None
       /\ (last'.op = "update" /\ last'.id \in DOMAIN db)
          => /\ last'.payload.assignee_id = None
                => /\ db'[last'.id].assignee_id = db[last'.id].assignee_id
                   /\ last'.status = 400 => last'.detail # "assignee_id is invalid"
             /\ last'.payload.due_date = None
                => db'[last'.id].due_date = db[last'.id].due_date
             /\ last'.payload = NoUpdate => Succeeded(last')]_vars

\* An update with assignee_id and due_date null succeeded on a task that has
\* both.
C10_Witness ==
    /\ last.op = "update"
    /\ Succeeded(last)
    /\ last.payload.assignee_id = None
    /\ last.payload.due_date = None
    /\ db[last.id].assignee_id # None
    /\ db[last.id].due_date # None

BodyIds(body) == [k \in 1..Len(body) |-> body[k].id]

\* C3: a list comes with every open task before every completed one and,
\* within each of the two groups, in descending created_at order; tasks
\* A (open), B (completed), C (open) created in that order are listed as
\* [C, A, B].
C3_ListOrder ==
    (last.op = "list" /\ last.status = 200)
    => /\ \A k, l \in 1..Len(last.body) :
            k < l => /\ ~(last.body[k].completed /\ ~last.body[l].completed)
                     /\ last.body[k].completed = last.body[l].completed
                        => last.body[k].created_at >= last.body[l].created_at
       /\ (/\ last.q = NoQuery
           /\ DOMAIN db = {1, 2, 3}
           /\ ~db[1].completed /\ db[2].completed /\ ~db[3].completed
           /\ db[1].created_at < db[2].created_at
           /\ db[2].created_at < db[3].created_at)
          => BodyIds(last.body) = <<3, 1, 2>>

\* A (1), B (2) and C (3) of the example were listed as [C, A, B].
C3_Witness ==
    /\ last.op = "list"
    /\ last.status = 200
    /\ last.q = NoQuery
    /\ DOMAIN db = {1, 2, 3}
    /\ ~db[1].completed /\ db[2].completed /\ ~db[3].completed
    /\ BodyIds(last.body) = <<3, 1, 2>>

\* What C4 says a task must satisfy to be listed under query q on day today.
Supplied(x) == x # None /\ x # Some(<<>>)

Matches(t, q, today) ==
    /\ Supplied(q.search)
       => (contains(t.title, q.search[1]) \/ contains(t.description, q.search[1]))
    /\ q.status = Some("complete") => t.completed
    /\ q.status = Some("incomplete") => ~t.completed
    /\ q.assignee_id # None => t.assignee_id = q.assignee_id
    /\ Supplied(q.priority) => t.priority = lower(q.priority[1])
    /\ q.due = Some("overdue") => (t.due_date # None /\ t.due_date[1] < today)
    /\ q.due = Some("today") => (t.due_date # None /\ t.due_date[1] = today)
    /\ q.due = Some("upcoming") => (t.due_date # None /\ t.due_date[1] > today)

ListsExactlyMatches(table, q, today, resp) ==
    resp.status = 200
    => /\ LET matching == {i \in DOMAIN table : Matches(table[i], q, today)} IN
          /\ {resp.body[k].id : k \in 1..Len(resp.body)} = matching
          /\ Len(resp.body) = Cardinality(matching)
       /\ \A k \in 1..Len(resp.body) :
            /\ resp.body[k] = task_view(resp.body[k].id, table[resp.body[k].id])
            /\ (q.due \in {Some("overdue"), Some("today"), Some("upcoming")})
               => resp.body[k].due_date # None

\* C4: a list returns exactly the stored tasks that satisfy all the filters
\* supplied, each once and as stored: status by completed, assignee_id by
\* equality, priority by the normalized value, due by the task's non-null
\* due_date before, on or after the one day the call runs on; a task with
\* no due_date is in none of the three due buckets.
C4_ListFilters ==
    /\ last.op = "list" => ListsExactlyMatches(db, last.q, last.today, last)
    /\ \A q \in AllQueries, today \in Days :
          ListsExactlyMatches(db, q, today, list_response(db, q, today))

\* Two filters were supplied, and of the two stored tasks one was listed.
C4_Witness ==
    /\ last.op = "list"
    /\ last.status = 200
    /\ last.q = [NoQuery EXCEPT !.status = Some("incomplete"), !.assignee_id = Some(4)]
    /\ Cardinality(DOMAIN db) = 2
    /\ Len(last.body) = 1

UnknownPriority(q) ==
    Supplied(q.priority) /\ lower(q.priority[1]) \notin ALLOWED_PRIORITIES

C9_State ==
    /\ \A q \in AllQueries, today \in Days :
          LET resp == list_response(db, q, today) IN
          /\ q.status \notin {None, Some("complete"), Some("incomplete")}
             => resp = list_response(db, [q EXCEPT !.status = None], today)
          /\ q.due \notin {None, Some("overdue"), Some("today"), Some("upcoming")}
             => resp = list_response(db, [q EXCEPT !.due = None], today)
          /\ UnknownPriority(q) <=> resp.status = 400
          /\ resp.status \in {200, 400}
    /\ last.op = "list" => (UnknownPriority(last.q) <=> last.status = 400)

C9_Step == last'.op = "list" => (db' = db /\ clock' = clock)

\* C9: a list whose status or due is not a documented value answers as if
\* the parameter were absent; a list fails, with InvalidInput, exactly when
\* its priority is non-empty and not low|medium|high in any case, whatever
\* its other filters; no list changes a stored task.
C9_OnlyPriorityStrict == []C9_State /\ [][C9_Step]_vars

\* status=all and due=soon were sent and every stored task was listed, where
\* priority=urgent is refused.
C9_Witness ==
    /\ last.op = "list"
    /\ last.q = [NoQuery EXCEPT !.status = Some("all"), !.due = Some("soon")]
    /\ last.status = 200
    /\ Cardinality(DOMAIN db) = 2
    /\ Len(last.body) = 2
    /\ list_response(db, [last.q EXCEPT !.priority = Some(P_urgent)], last.today).status = 400

====
